---- MODULE Spec2Model ----
(***************************************************************************)
(* Model of the poll API Lambda (src/infra/lambda/index.ts).               *)
(*                                                                         *)
(* The handler is stateless; all state lives in two DynamoDB tables:       *)
(*   polls   (hash key pollId)                 -> the Poll Store           *)
(*   voters  (hash key pollId, range key voterToken) -> the Voter Ledger   *)
(* Several invocations of the handler run at the same time (one Lambda     *)
(* instance each); they interleave at every `await ddb.send(...)`.  One    *)
(* action of the model is one store operation together with the            *)
(* synchronous code that follows it up to the next await or return.        *)
(***************************************************************************)
EXTENDS Integers, Sequences, FiniteSets, TLC

\* Number of handler invocations (POST /vote requests) in one behaviour.
MaxReqs == 2

Reqs == 1..MaxReqs

\* ---------------------------------------------------------------- values
\* A field that is not present in the JSON body (JS `undefined`).
Absent == "<absent>"

\* Keys of the polls table that clients ask for; "p3" is never stored.
PollIds == {"p1", "p2", "p3"}

\* Voter tokens clients send.
Tokens == {"tA", "tB"}

\* optionId values clients send, written as the property key JavaScript
\* derives from them (options[0] and options["0"] are the same property).
OptionKeys == {"0", "1", "2", "-1", "map", "length", ""}

\* The canonical property key of array index i (0-based), for i < 3.
IndexKey == <<"0", "1", "2">>

\* Names that every array inherits from Array.prototype and that hold a
\* function (map, filter, push, ...); "map" stands for all of them.
ArrayMethods == {"map"}

NoItem == [missing |-> TRUE]
\* The body of an invocation that has not parsed one: every field absent.
NoBody == [pollId |-> Absent, optionId |-> Absent, voterToken |-> Absent]
NoResp == [status |-> 0, error |-> "", options |-> <<>>, totalVotes |-> 0]
\* The query of an invocation that has none: every parameter absent.
NoQuery == [pollId |-> Absent, voterToken |-> Absent]
\* No 200 body of GET /results.
NoView == [hasVoted |-> FALSE, status |-> "", isClosed |-> FALSE,
           showVoteCount |-> FALSE, question |-> ""]

\* Request bodies: JSON objects with (possibly absent or empty) pollId,
\* optionId and voterToken.  Well-formed votes on the two stored polls (both
\* options and both tokens on "p1"),
\* votes with every other kind of optionId, a vote on an unknown poll, and
\* bodies with one field absent or empty.
WellFormedBodies ==
    [pollId : {"p1"}, optionId : {"0", "1"}, voterToken : Tokens]
        \cup [pollId : {"p2"}, optionId : {"0"}, voterToken : {"tA"}]

OddOptionBodies ==
    [pollId : {"p1"}, optionId : OptionKeys \ {"0", "1"}, voterToken : {"tA"}]

UnknownPollBodies ==
    [pollId : {"p3"}, optionId : {"0"}, voterToken : {"tA"}]

MalformedBodies ==
    [pollId : {Absent, ""}, optionId : {"0"}, voterToken : {"tA"}]
        \cup [pollId : {"p1"}, optionId : {Absent}, voterToken : {"tA"}]
        \cup [pollId : {"p1"}, optionId : {"0"}, voterToken : {Absent, ""}]

Bodies ==
    WellFormedBodies \cup OddOptionBodies \cup UnknownPollBodies \cup MalformedBodies

\* What one ddb.send can do: complete, reject without effect, or (writes
\* only) reject although DynamoDB applied the write (a timeout).
ReadOutcomes == {"ok", "error"}
WriteOutcomes == {"ok", "error", "timeout"}

\* The event of an invocation whose routing is not looked at.
NoEvent == [method |-> "", apiKey |-> Absent, path |-> ""]

\* The environment of the proxy Lambda: whether TARGET_API_BASE and
\* PUBLIC_API_KEY are set.
ConfiguredEnv == [target |-> TRUE, key |-> TRUE]

\* What the proxy returns: status code and body.
NoProxyResp == [status |-> 0, body |-> ""]

\* The proxy Lambda between invocations.
IdleProxy(env) ==
    [env |-> env, pc |-> "idle", method |-> "", body |-> Absent, warmup |-> FALSE,
     forwards |-> 0, sent |-> Absent, target |-> NoProxyResp, resp |-> NoProxyResp]

VARIABLES
    polls,      \* polls table: pollId -> item or NoItem
    voters,     \* voters table: set of <<pollId, voterToken>> keys
    pc,         \* per invocation: the await it is suspended at
    body,       \* per invocation: the parsed request body
    options,    \* per invocation: the handler's local `options` array
    resp,       \* per invocation: the response returned
    prior,      \* per invocation: the invocations that had returned when it began
    pollWrites, \* per invocation: UpdateCommands sent to the polls table
    voterWrites, \* per invocation: PutCommands sent to the voters table
    method,     \* per invocation: event.httpMethod ("" before it begins)
    query,      \* per invocation: the query string parameters of GET /results
    pollItem,   \* per invocation: the poll item GET /results has loaded
    view,       \* per invocation: the fields of the 200 body of GET /results
    event,      \* per invocation: method, x-api-key header and path of its event
    accessed,   \* per invocation: it has sent a command to a table
    proxy       \* the proxy Lambda: its environment and its current invocation

vars == <<polls, voters, pc, body, options, resp, prior, pollWrites, voterWrites,
          method, query, pollItem, view, event, accessed, proxy>>

\* The variables the routing of the handler and the proxy add.
edgeVars == <<event, accessed, proxy>>

\* The variables only GET /results writes.
resultsVars == <<query, pollItem, view>>

\* ------------------------------------------------------- pure functions
RECURSIVE SumVotes(_)
\* options.reduce((sum, o) => sum + (o.votes || 0), 0)
SumVotes(opts) ==
    IF opts = <<>> THEN 0 ELSE Head(opts) + SumVotes(Tail(opts))

\* options[optionId]: the value JavaScript finds under the key.
Lookup(opts, key) ==
    IF \E i \in 1..Len(opts) : i <= Len(IndexKey) /\ IndexKey[i] = key
    THEN [kind |-> "object",
          ix |-> CHOOSE i \in 1..Len(opts) : i <= Len(IndexKey) /\ IndexKey[i] = key]
    ELSE IF key = "length" THEN [kind |-> "number", ix |-> Len(opts)]
    ELSE IF key \in ArrayMethods THEN [kind |-> "function", ix |-> 0]
    ELSE [kind |-> "undefined", ix |-> 0]

\* JavaScript truthiness of a looked-up value.
Truthy(v) ==
    CASE v.kind = "object" -> TRUE
      [] v.kind = "function" -> TRUE
      [] v.kind = "number" -> v.ix # 0
      [] OTHER -> FALSE

\* !x for a string field of the body: absent and "" are falsy.
Falsy(x) == x = Absent \/ x = ""

response(status, error) ==
    [status |-> status, error |-> error, options |-> <<>>, totalVotes |-> 0]

\* voteResponse with the reduce called without its initial value: the
\* first option is taken as the start and its votes are not added.
voteResponseNoInitial(opts) ==
    [status |-> 200, error |-> "", options |-> opts,
     totalVotes |-> IF opts = <<>> THEN 0 ELSE SumVotes(Tail(opts))]

\* The 200 response of POST /vote.
voteResponse(opts) ==
    [status |-> 200, error |-> "", options |-> opts, totalVotes |-> SumVotes(opts)]

\* options[optionId].votes = (options[optionId].votes || 0) + 1
\* on an element of the array; other kinds of value are handled in CheckVote.
\* Increment that adds two votes.
IncrementByTwo(opts, ix) == [opts EXCEPT ![ix] = opts[ix] + 2]

Increment(opts, ix) == [opts EXCEPT ![ix] = opts[ix] + 1]

\* ------------------------------------------------------------------ Init
\* The options of a poll nobody has voted on: two options, no votes.
InitialOptions == <<0, 0>>

\* The tables as deployed and no invocation begun.
InitApi ==
    /\ polls = [p \in PollIds |->
                 CASE p = "p1" -> [options |-> InitialOptions, encoded |-> TRUE, status |-> "active",
                                   showVoteCount |-> "false", question |-> "q1"]
                   [] p = "p2" -> [options |-> InitialOptions, encoded |-> FALSE, status |-> "none",
                                   showVoteCount |-> "undefined", question |-> "q2"]
                   [] OTHER -> NoItem]
    /\ voters = {}
    /\ pc = [r \in Reqs |-> "idle"]
    /\ body = [r \in Reqs |-> NoBody]
    /\ options = [r \in Reqs |-> <<>>]
    /\ resp = [r \in Reqs |-> NoResp]
    /\ prior = [r \in Reqs |-> {}]
    /\ pollWrites = [r \in Reqs |-> 0]
    /\ voterWrites = [r \in Reqs |-> 0]
    /\ method = [r \in Reqs |-> ""]
    /\ query = [r \in Reqs |-> NoQuery]
    /\ pollItem = [r \in Reqs |-> NoItem]
    /\ view = [r \in Reqs |-> NoView]
    /\ accessed = [r \in Reqs |-> FALSE]

\* The handler behind the API key check, the proxy not in use.
Init ==
    /\ InitApi
    /\ event = [r \in Reqs |-> NoEvent]
    /\ proxy = IdleProxy(ConfiguredEnv)

\* --------------------------------------------------------------- actions
\* The invocations that have returned.
Done == {q \in Reqs : pc[q] = "done"}

\* Invocations are numbered in the order in which they begin.
Arrives(r) ==
    /\ pc[r] = "idle"
    /\ \A q \in Reqs : q < r => pc[q] # "idle"
    /\ prior' = [prior EXCEPT ![r] = Done]

\* return response(...): the invocation ends; its locals are gone.
Return(r, rsp) ==
    /\ pc' = [pc EXCEPT ![r] = "done"]
    /\ resp' = [resp EXCEPT ![r] = rsp]
    /\ options' = [options EXCEPT ![r] = <<>>]

\* POST /vote without a body.
MissingBody(r) ==
    /\ Arrives(r)
    /\ method' = [method EXCEPT ![r] = "POST"]
    /\ Return(r, response(400, "Missing body"))
    /\ UNCHANGED <<polls, voters, body, pollWrites, voterWrites, resultsVars, edgeVars>>

\* POST /vote with a body that JSON.parse rejects, or that parses to null
\* (destructuring null throws): the catch block answers 500.
BadJson(r) ==
    /\ Arrives(r)
    /\ method' = [method EXCEPT ![r] = "POST"]
    /\ Return(r, response(500, "Internal server error"))
    /\ UNCHANGED <<polls, voters, body, pollWrites, voterWrites, resultsVars, edgeVars>>

\* LoadPoll that takes a failed read of the polls table for a missing poll
\* and answers 404.
LoadPollErrorAsNotFound(r, b, outcome) ==
    /\ Arrives(r)
    /\ method' = [method EXCEPT ![r] = "POST"]
    /\ body' = [body EXCEPT ![r] = b]
    /\ IF Falsy(b.pollId) \/ b.optionId = Absent \/ Falsy(b.voterToken)
       THEN Return(r, response(400, "Missing params"))
       ELSE LET poll == IF outcome = "error" THEN NoItem ELSE polls[b.pollId] IN
            IF poll = NoItem THEN Return(r, response(404, "Poll not found"))
            ELSE IF poll.status = "closed" THEN Return(r, response(403, "Poll is closed"))
            ELSE IF ~Truthy(Lookup(poll.options, b.optionId))
            THEN Return(r, response(400, "Invalid option"))
            ELSE /\ pc' = [pc EXCEPT ![r] = "checkVote"]
                 /\ options' = [options EXCEPT ![r] = poll.options]
                 /\ UNCHANGED resp
    /\ accessed' = [accessed EXCEPT ![r] =
                      ~(Falsy(b.pollId) \/ b.optionId = Absent \/ Falsy(b.voterToken))]
    /\ UNCHANGED <<polls, voters, pollWrites, voterWrites, resultsVars, event, proxy>>

\* POST /vote: the parameter check, the GetCommand on the polls table and
\* the checks on the loaded poll.
LoadPoll(r, b, outcome) ==
    /\ Arrives(r)
    /\ method' = [method EXCEPT ![r] = "POST"]
    /\ body' = [body EXCEPT ![r] = b]
    /\ IF Falsy(b.pollId) \/ b.optionId = Absent \/ Falsy(b.voterToken)
       THEN Return(r, response(400, "Missing params"))
       ELSE IF outcome = "error"
       THEN Return(r, response(500, "Internal server error"))
       ELSE LET poll == polls[b.pollId] IN
            IF poll = NoItem THEN Return(r, response(404, "Poll not found"))
            ELSE IF poll.status = "closed" THEN Return(r, response(403, "Poll is closed"))
            ELSE IF ~Truthy(Lookup(poll.options, b.optionId))
            THEN Return(r, response(400, "Invalid option"))
            ELSE /\ pc' = [pc EXCEPT ![r] = "checkVote"]
                 /\ options' = [options EXCEPT ![r] = poll.options]
                 /\ UNCHANGED resp
    /\ accessed' = [accessed EXCEPT ![r] =
                      ~(Falsy(b.pollId) \/ b.optionId = Absent \/ Falsy(b.voterToken))]
    /\ UNCHANGED <<polls, voters, pollWrites, voterWrites, resultsVars, event, proxy>>

\* SetOptions with the key of the update fixed to one poll.
SetOptionsFixedKey(p, opts) ==
    [polls EXCEPT !["p1"].options = opts, !["p1"].encoded = TRUE]

\* What UpdateCommand SET options = JSON.stringify(options) does to the
\* polls table (it creates the item when the key is not there).
\* SetOptions that also sets the poll's status to active.
SetOptionsReopens(p, opts) ==
    [polls EXCEPT ![p].options = opts, ![p].encoded = TRUE, ![p].status = "active"]

SetOptions(p, opts) ==
    IF polls[p] = NoItem
    THEN [polls EXCEPT ![p] = [options |-> opts, encoded |-> TRUE, status |-> "none",
                               showVoteCount |-> "undefined", question |-> ""]]
    ELSE [polls EXCEPT ![p].options = opts, ![p].encoded = TRUE]

\* CheckVote with the tally written before the duplicate is reported: a
\* voter who has already voted is answered AlreadyVoted after the poll's
\* options were stored again with the vote added.
CheckVoteCountsFirst(r, outcome) ==
    /\ pc[r] = "checkVote"
    /\ IF outcome = "error"
       THEN /\ Return(r, response(500, "Internal server error"))
            /\ UNCHANGED <<polls, pollWrites>>
       ELSE IF <<body[r].pollId, body[r].voterToken>> \in voters
       THEN LET v == Lookup(options[r], body[r].optionId) IN
            /\ Return(r, response(400, "Already voted"))
            /\ pollWrites' = [pollWrites EXCEPT ![r] = @ + 1]
            /\ polls' = IF v.kind = "object"
                        THEN SetOptions(body[r].pollId, Increment(options[r], v.ix))
                        ELSE SetOptions(body[r].pollId, options[r])
       ELSE LET v == Lookup(options[r], body[r].optionId) IN
            /\ UNCHANGED <<polls, pollWrites>>
            /\ CASE v.kind = "object" ->
                    /\ pc' = [pc EXCEPT ![r] = "updatePoll"]
                    /\ options' = [options EXCEPT ![r] = Increment(options[r], v.ix)]
                    /\ UNCHANGED resp
                 [] v.kind = "function" ->
                    /\ pc' = [pc EXCEPT ![r] = "updatePoll"]
                    /\ UNCHANGED <<options, resp>>
                 [] OTHER ->
                    Return(r, response(500, "Internal server error"))
    /\ UNCHANGED <<voters, body, prior, voterWrites, method, resultsVars, edgeVars>>

\* The GetCommand on the voters table, the duplicate check and the
\* increment of the local options array.
CheckVote(r, outcome) ==
    /\ pc[r] = "checkVote"
    /\ IF outcome = "error"
       THEN Return(r, response(500, "Internal server error"))
       ELSE IF <<body[r].pollId, body[r].voterToken>> \in voters
       THEN Return(r, response(400, "Already voted"))
       ELSE LET v == Lookup(options[r], body[r].optionId) IN
            CASE v.kind = "object" ->
                    /\ pc' = [pc EXCEPT ![r] = "updatePoll"]
                    /\ options' = [options EXCEPT ![r] = Increment(options[r], v.ix)]
                    /\ UNCHANGED resp
              [] v.kind = "function" ->
                    \* the property is set on the function object; the array
                    \* and its JSON are unchanged
                    /\ pc' = [pc EXCEPT ![r] = "updatePoll"]
                    /\ UNCHANGED <<options, resp>>
              [] OTHER ->
                    \* strict mode: setting a property on a number throws
                    Return(r, response(500, "Internal server error"))
    /\ UNCHANGED <<polls, voters, body, prior, pollWrites, voterWrites, method, resultsVars, edgeVars>>

\* The UpdateCommand on the polls table.
\* UpdatePoll that goes on to the ledger insert whatever the outcome of the
\* UpdateCommand.
UpdatePollIgnoresFailure(r, outcome) ==
    /\ pc[r] = "updatePoll"
    /\ pollWrites' = [pollWrites EXCEPT ![r] = @ + 1]
    /\ polls' = IF outcome = "error" THEN polls
                ELSE SetOptions(body[r].pollId, options[r])
    /\ pc' = [pc EXCEPT ![r] = "putVoter"]
    /\ UNCHANGED <<resp, options>>
    /\ UNCHANGED <<voters, body, prior, voterWrites, method, resultsVars, edgeVars>>

UpdatePoll(r, outcome) ==
    /\ pc[r] = "updatePoll"
    /\ pollWrites' = [pollWrites EXCEPT ![r] = @ + 1]
    /\ polls' = IF outcome = "error" THEN polls
                ELSE SetOptions(body[r].pollId, options[r])
    /\ IF outcome = "ok"
       THEN /\ pc' = [pc EXCEPT ![r] = "putVoter"]
            /\ UNCHANGED <<resp, options>>
       ELSE Return(r, response(500, "Internal server error"))
    /\ UNCHANGED <<voters, body, prior, voterWrites, method, resultsVars, edgeVars>>

\* PutItem that stores nothing: the ledger insert is lost.
PutItemLost(p, v) == voters

\* PutItem on a table keyed by pollId alone: the entry of another voter of
\* the poll is replaced.
PutItemPerPoll(p, v) == {e \in voters : e[1] # p} \cup {<<p, v>>}

\* What PutCommand Item = {pollId, voterToken} does to the voters table.
PutItem(p, v) == voters \cup {<<p, v>>}

\* The PutCommand on the voters table and the 200 response.
\* PutVoter that sends the PutCommand a second time when the first one
\* fails.
PutVoterRetries(r, outcome) ==
    /\ pc[r] = "putVoter"
    /\ voterWrites' = [voterWrites EXCEPT ![r] = @ + 1]
    /\ voters' = IF outcome = "error" THEN voters
                 ELSE PutItem(body[r].pollId, body[r].voterToken)
    /\ IF outcome = "ok"
       THEN Return(r, voteResponse(options[r]))
       ELSE IF voterWrites[r] = 0
       THEN UNCHANGED <<pc, resp, options>>
       ELSE Return(r, response(500, "Internal server error"))
    /\ UNCHANGED <<polls, body, prior, pollWrites, method, resultsVars, edgeVars>>

PutVoter(r, outcome) ==
    /\ pc[r] = "putVoter"
    /\ voterWrites' = [voterWrites EXCEPT ![r] = @ + 1]
    /\ voters' = IF outcome = "error" THEN voters
                 ELSE PutItem(body[r].pollId, body[r].voterToken)
    /\ IF outcome = "ok"
       THEN Return(r, voteResponse(options[r]))
       ELSE Return(r, response(500, "Internal server error"))
    /\ UNCHANGED <<polls, body, prior, pollWrites, method, resultsVars, edgeVars>>

\* The polls an owner closes while votes come in.
Closable == {"p1"}

\* The poll's owner closes the poll (status active -> closed); done
\* outside the handler, directly on the polls table.
ClosePoll(p) ==
    /\ p \in Closable
    /\ polls[p] # NoItem
    /\ polls[p].status # "closed"
    /\ polls' = [polls EXCEPT ![p].status = "closed"]
    /\ UNCHANGED <<voters, pc, body, options, resp, prior, pollWrites, voterWrites,
                   method, resultsVars, edgeVars>>

\* -------------------------------------------------------- GET /results
\* Query strings of GET /results: both stored polls with and without a
\* voter token, a second and an empty token, an unknown poll, and no or an
\* empty pollId.
Queries ==
    [pollId : {"p1", "p2"}, voterToken : {"tA", Absent}]
        \cup [pollId : {"p1"}, voterToken : {"tB", ""}]
        \cup [pollId : {"p3", Absent, ""}, voterToken : {"tA"}]

\* HasVoted looked up by the voter token alone, whatever the poll.
HasVotedAnyPoll(p, v) == \E p2 \in PollIds : <<p2, v>> \in voters

\* hasVoted = !!voterResp.Item
HasVoted(p, v) == <<p, v>> \in voters

\* The 200 response of GET /results: options and totalVotes.
resultsResponse(opts) ==
    [status |-> 200, error |-> "", options |-> opts, totalVotes |-> SumVotes(opts)]

\* The other fields of the 200 body of GET /results.
\* resultsView that shows the vote count only when the stored flag is true.
resultsViewHidesByDefault(item, hasVoted) ==
    [hasVoted |-> hasVoted,
     status |-> IF item.status = "none" THEN "active" ELSE item.status,
     isClosed |-> item.status = "closed",
     showVoteCount |-> item.showVoteCount = "true",
     question |-> item.question]

resultsView(item, hasVoted) ==
    [hasVoted |-> hasVoted,
     status |-> IF item.status = "none" THEN "active" ELSE item.status,
     isClosed |-> item.status = "closed",
     showVoteCount |-> item.showVoteCount # "false",
     question |-> item.question]

\* GET /results: the pollId check, the GetCommand on the polls table and,
\* when no voterToken is given, the 200 response.
GetPoll(r, q, outcome) ==
    /\ Arrives(r)
    /\ method' = [method EXCEPT ![r] = "GET"]
    /\ query' = [query EXCEPT ![r] = q]
    /\ IF Falsy(q.pollId)
       THEN /\ Return(r, response(400, "Missing pollId"))
            /\ UNCHANGED <<pollItem, view>>
       ELSE IF outcome = "error"
       THEN /\ Return(r, response(500, "Internal server error"))
            /\ UNCHANGED <<pollItem, view>>
       ELSE IF polls[q.pollId] = NoItem
       THEN /\ Return(r, response(404, "Poll not found"))
            /\ UNCHANGED <<pollItem, view>>
       ELSE IF ~Falsy(q.voterToken)
       THEN /\ pc' = [pc EXCEPT ![r] = "getVoter"]
            /\ pollItem' = [pollItem EXCEPT ![r] = polls[q.pollId]]
            /\ UNCHANGED <<resp, options, view>>
       ELSE /\ Return(r, resultsResponse(polls[q.pollId].options))
            /\ view' = [view EXCEPT ![r] = resultsView(polls[q.pollId], FALSE)]
            /\ UNCHANGED pollItem
    /\ accessed' = [accessed EXCEPT ![r] = ~Falsy(q.pollId)]
    /\ UNCHANGED <<polls, voters, body, pollWrites, voterWrites, event, proxy>>

\* GetVoter that records the caller in the voters table when it finds no
\* entry for it.
GetVoterRecordsCaller(r, outcome) ==
    /\ pc[r] = "getVoter"
    /\ pollItem' = [pollItem EXCEPT ![r] = NoItem]
    /\ IF outcome = "error"
       THEN /\ Return(r, response(500, "Internal server error"))
            /\ UNCHANGED <<view, voters>>
       ELSE /\ Return(r, resultsResponse(pollItem[r].options))
            /\ voters' = voters \cup {<<query[r].pollId, query[r].voterToken>>}
            /\ view' = [view EXCEPT ![r] =
                          resultsView(pollItem[r],
                                      HasVoted(query[r].pollId, query[r].voterToken))]
    /\ UNCHANGED <<polls, body, prior, pollWrites, voterWrites, method, query, edgeVars>>

\* GET /results with a voterToken: the GetCommand on the voters table and
\* the 200 response.
GetVoter(r, outcome) ==
    /\ pc[r] = "getVoter"
    /\ pollItem' = [pollItem EXCEPT ![r] = NoItem]
    /\ IF outcome = "error"
       THEN /\ Return(r, response(500, "Internal server error"))
            /\ UNCHANGED view
       ELSE /\ Return(r, resultsResponse(pollItem[r].options))
            /\ view' = [view EXCEPT ![r] =
                          resultsView(pollItem[r],
                                      HasVoted(query[r].pollId, query[r].voterToken))]
    /\ UNCHANGED <<polls, voters, body, prior, pollWrites, voterWrites, method, query, edgeVars>>

Next ==
    \/ \E r \in Reqs : MissingBody(r)
    \/ \E r \in Reqs : BadJson(r)
    \/ \E r \in Reqs, b \in Bodies, o \in ReadOutcomes : LoadPoll(r, b, o)
    \/ \E r \in Reqs, o \in ReadOutcomes : CheckVote(r, o)
    \/ \E r \in Reqs, o \in WriteOutcomes : UpdatePoll(r, o)
    \/ \E r \in Reqs, o \in WriteOutcomes : PutVoter(r, o)
    \/ \E p \in PollIds : ClosePoll(p)

Spec == Init /\ [][Next]_vars

\* Votes sent while results are read: one voter on each stored poll.
ResultsVotes ==
    [pollId : {"p1", "p2"}, optionId : {"0"}, voterToken : {"tA"}]

\* The handler serving GET /results and POST /vote at the same time.
NextResults ==
    \/ \E r \in Reqs, q \in Queries, o \in ReadOutcomes : GetPoll(r, q, o)
    \/ \E r \in Reqs, o \in ReadOutcomes : GetVoter(r, o)
    \/ \E r \in Reqs, b \in ResultsVotes, o \in ReadOutcomes : LoadPoll(r, b, o)
    \/ \E r \in Reqs, o \in ReadOutcomes : CheckVote(r, o)
    \/ \E r \in Reqs, o \in WriteOutcomes : UpdatePoll(r, o)
    \/ \E r \in Reqs, o \in WriteOutcomes : PutVoter(r, o)
    \/ \E p \in PollIds : ClosePoll(p)

SpecResults == Init /\ [][NextResults]_vars

\* ------------------------------------------------------------- routing
\* Paths of events, and those among them that contain "results" or "vote".
Paths == {"/vote", "/results", "/vote/results", "/other"}
IncludesResults == {"/results", "/vote/results"}
IncludesVote == {"/vote", "/vote/results"}

\* Events the handler is invoked with: a preflight with and without key,
\* requests without or with an empty x-api-key header, and requests with a
\* key for each route and for none.
Events ==
    [method : {"OPTIONS"}, apiKey : {Absent, "k"}, path : {"/vote"}]
        \cup [method : {"GET"}, apiKey : {Absent}, path : {"/results"}]
        \cup [method : {"POST"}, apiKey : {Absent, ""}, path : {"/vote"}]
        \cup [method : {"DELETE"}, apiKey : {Absent}, path : {"/other"}]
        \cup [method : {"GET"}, apiKey : {"k"}, path : {"/results", "/vote"}]
        \cup [method : {"POST"}, apiKey : {"k"}, path : {"/vote", "/vote/results"}]

\* Route with the API key looked at only for a request that matches no
\* route.
RouteKeyLast(e) ==
    IF e.method = "OPTIONS" THEN "preflight"
    ELSE IF e.method = "GET" /\ e.path \in IncludesResults THEN "results"
    ELSE IF e.method = "POST" /\ e.path \in IncludesVote THEN "vote"
    ELSE IF Falsy(e.apiKey) THEN "unauthorized"
    ELSE "notFound"

\* The branch of the handler an event takes.
Route(e) ==
    IF e.method = "OPTIONS" THEN "preflight"
    ELSE IF Falsy(e.apiKey) THEN "unauthorized"
    ELSE IF e.method = "GET" /\ e.path \in IncludesResults THEN "results"
    ELSE IF e.method = "POST" /\ e.path \in IncludesVote THEN "vote"
    ELSE "notFound"

\* An invocation that returns before the first await: nothing is sent to
\* the tables.
Answer(r, rsp) ==
    /\ Arrives(r)
    /\ method' = [method EXCEPT ![r] = event[r].method]
    /\ Return(r, rsp)
    /\ UNCHANGED <<polls, voters, body, pollWrites, voterWrites, resultsVars, edgeVars>>

\* CORS preflight.
Preflight(r) == Route(event[r]) = "preflight" /\ Answer(r, response(200, ""))

\* Basic API key validation.
Unauthorized(r) ==
    Route(event[r]) = "unauthorized" /\ Answer(r, response(401, "Missing API key"))

\* Neither GET /results nor POST /vote.
NotFound(r) == Route(event[r]) = "notFound" /\ Answer(r, response(404, "Not found"))

RoutedResults(r, q, outcome) == Route(event[r]) = "results" /\ GetPoll(r, q, outcome)

RoutedMissingBody(r) == Route(event[r]) = "vote" /\ MissingBody(r)

RoutedBadJson(r) == Route(event[r]) = "vote" /\ BadJson(r)

RoutedVote(r, b, outcome) == Route(event[r]) = "vote" /\ LoadPoll(r, b, outcome)

\* Queries of the routed GET /results.
RoutedQueries ==
    [pollId : {"p1"}, voterToken : {"tA", Absent}]
        \cup [pollId : {Absent}, voterToken : {"tA"}]

\* The events of all invocations are given; the tables are as deployed.
InitRouting ==
    /\ InitApi
    /\ event \in [Reqs -> Events]
    /\ proxy = IdleProxy(ConfiguredEnv)

\* The whole handler: preflight, key check, routing and the two routes.
NextRouting ==
    \/ \E r \in Reqs : Preflight(r)
    \/ \E r \in Reqs : Unauthorized(r)
    \/ \E r \in Reqs : NotFound(r)
    \/ \E r \in Reqs, q \in RoutedQueries, o \in ReadOutcomes : RoutedResults(r, q, o)
    \/ \E r \in Reqs, o \in ReadOutcomes : GetVoter(r, o)
    \/ \E r \in Reqs : RoutedMissingBody(r)
    \/ \E r \in Reqs : RoutedBadJson(r)
    \/ \E r \in Reqs, b \in ResultsVotes, o \in ReadOutcomes : RoutedVote(r, b, o)
    \/ \E r \in Reqs, o \in ReadOutcomes : CheckVote(r, o)
    \/ \E r \in Reqs, o \in WriteOutcomes : UpdatePoll(r, o)
    \/ \E r \in Reqs, o \in WriteOutcomes : PutVoter(r, o)

SpecRouting == InitRouting /\ [][NextRouting]_vars

\* --------------------------------------------------------------- proxy
\* The variables of the poll API, which the proxy Lambda does not touch.
apiVars == <<polls, voters, pc, body, options, resp, prior, pollWrites, voterWrites,
             method, resultsVars, event, accessed>>

\* Environments of the proxy Lambda.
Envs == [target : BOOLEAN, key : BOOLEAN]

\* Events the proxy is invoked with: API Gateway requests with and without
\* a body, and the warmup ping.
ProxyEvents ==
    [method : {"OPTIONS", "GET", "POST"}, body : {Absent, "{vote}"}, warmup : {FALSE}]
        \cup [method : {Absent}, body : {Absent}, warmup : {TRUE}]

\* What the target API answers: its status and its body text.
TargetResponses ==
    [status : {200, 400, 404, 502},
     body : {"", "{success}", "{error}"}]

\* fetch rejects: no response of the target is received.
FetchRejected == [status |-> 0, body |-> "<rejected>"]

\* The proxy ends its invocation with the given status and body.
ProxyReturn(status, text) ==
    [proxy EXCEPT !.pc = "done", !.resp = [status |-> status, body |-> text]]

\* The handler up to the call of fetch: warmup ping, preflight and the
\* check of the environment, then the one request to the target API.
ProxyInvoke(e) ==
    /\ proxy.pc \in {"idle", "done"}
    /\ LET p == [IdleProxy(proxy.env) EXCEPT !.method = e.method, !.body = e.body,
                                             !.warmup = e.warmup]
       IN proxy' =
            IF e.warmup
            THEN [p EXCEPT !.pc = "done", !.resp = [status |-> 200, body |-> "{proxy warm}"]]
            ELSE IF e.method = "OPTIONS"
            THEN [p EXCEPT !.pc = "done", !.resp = [status |-> 200, body |-> ""]]
            ELSE IF ~p.env.target \/ ~p.env.key
            THEN [p EXCEPT !.pc = "done",
                           !.resp = [status |-> 500, body |-> "{Configuration error}"]]
            ELSE [p EXCEPT !.pc = "fetch", !.forwards = 1,
                           !.sent = IF e.method = "GET" THEN Absent ELSE e.body]
    /\ UNCHANGED apiVars

\* ProxyFetchReturns that sends the request a second time when the first
\* fetch rejects.
ProxyFetchRetries(outcome) ==
    /\ proxy.pc = "fetch"
    /\ proxy' =
          IF outcome = FetchRejected
          THEN IF proxy.forwards = 1
               THEN [proxy EXCEPT !.forwards = 2]
               ELSE ProxyReturn(502, "{Proxy failed}")
          ELSE [proxy EXCEPT !.pc = "text", !.target = outcome]
    /\ UNCHANGED apiVars

\* await fetch(...): it rejects, or resolves with the target's response.
ProxyFetchReturns(outcome) ==
    /\ proxy.pc = "fetch"
    /\ proxy' =
          IF outcome = FetchRejected
          THEN ProxyReturn(502, "{Proxy failed}")
          ELSE [proxy EXCEPT !.pc = "text", !.target = outcome]
    /\ UNCHANGED apiVars

\* await resp.text(): it rejects, or gives the body, which is returned
\* with the target's status.
ProxyTextReturns(outcome) ==
    /\ proxy.pc = "text"
    /\ proxy' =
          IF outcome = "reject"
          THEN ProxyReturn(502, "{Proxy failed}")
          ELSE ProxyReturn(proxy.target.status, proxy.target.body)
    /\ UNCHANGED apiVars

\* The proxy Lambda deployed with any environment.
InitProxy ==
    /\ InitApi
    /\ event = [r \in Reqs |-> NoEvent]
    /\ proxy \in {IdleProxy(env) : env \in Envs}

NextProxy ==
    \/ \E e \in ProxyEvents : ProxyInvoke(e)
    \/ \E t \in TargetResponses \cup {FetchRejected} : ProxyFetchReturns(t)
    \/ \E o \in {"ok", "reject"} : ProxyTextReturns(o)

SpecProxy == InitProxy /\ [][NextProxy]_vars

\* ---------------------------------------------------- derived quantities
\* The stored total of a poll: the sum of its stored option counts.
Total(p) == SumVotes(polls[p].options)

\* The stored polls.
Stored == {p \in PollIds : polls[p] # NoItem}

\* The ledger entries of poll p.
Ledger(p) == {v \in Tokens : <<p, v>> \in voters}

\* No castVote is in flight.
Quiescent == \A r \in Reqs : pc[r] \in {"idle", "done"}

AllDone == \A r \in Reqs : pc[r] = "done"

Succeeded(r) == pc[r] = "done" /\ resp[r].status = 200

AlreadyVoted(r) ==
    pc[r] = "done" /\ resp[r].status = 400 /\ resp[r].error = "Already voted"

\* The invocation ended in the catch block.
Failed(r) == pc[r] = "done" /\ resp[r].status = 500

\* q and r are votes of the same voter on the same poll.
SameVoter(q, r) ==
    /\ body[q].pollId = body[r].pollId
    /\ body[q].voterToken = body[r].voterToken
    /\ ~Falsy(body[q].pollId)
    /\ ~Falsy(body[q].voterToken)

\* All invocations overlap: none began after another had returned.
AllConcurrent == \A r \in Reqs : prior[r] = {}

\* The responses by which castVote rejects a request without a store failure.
Rejections ==
    {response(400, "Missing body"), response(400, "Missing params"),
     response(404, "Poll not found"), response(403, "Poll is closed"),
     response(400, "Invalid option"), response(400, "Already voted")}

\* ------------------------------------------------------------------ C1
\* C1: for every poll P and voter token V at most one castVote(P, *, V) ever
\* succeeds: no two invocations with the same (pollId, voterToken) both
\* return 200 (so a later attempt of a voter whose vote succeeded is
\* answered AlreadyVoted, never success).
C1_AtMostOneSuccess ==
    \A q, r \in Reqs :
        (q # r /\ SameVoter(q, r) /\ Succeeded(q)) => ~Succeeded(r)

\* ------------------------------------------------------------------ C2
\* C2: when all N invocations carry the same voter token and a valid option
\* of the same open poll, run concurrently and none meets a store failure
\* or a closed poll, then once all have finished exactly one has returned
\* success, the others AlreadyVoted, and the poll's total has grown by 1.
C2_SameVoterConcurrent ==
    (/\ AllDone
     /\ AllConcurrent
     /\ \A r \in Reqs : body[r] \in WellFormedBodies
     /\ \A q, r \in Reqs : SameVoter(q, r)
     /\ \A r \in Reqs : Succeeded(r) \/ AlreadyVoted(r))
    => /\ Cardinality({r \in Reqs : Succeeded(r)}) = 1
       /\ Cardinality({r \in Reqs : AlreadyVoted(r)}) = MaxReqs - 1
       /\ Total(body[1].pollId) = 1

\* ------------------------------------------------------------------ C3
\* C3: when all N invocations carry distinct voter tokens and the same valid
\* option of the same open poll, run concurrently and all succeed, the
\* stored count of that option has grown by exactly N (from 0).
C3_NoLostUpdate ==
    (/\ AllDone
     /\ AllConcurrent
     /\ \A r \in Reqs : body[r] \in WellFormedBodies /\ Succeeded(r)
     /\ \A q, r \in Reqs :
            /\ body[q].pollId = body[r].pollId
            /\ body[q].optionId = body[r].optionId
            /\ (q # r => body[q].voterToken # body[r].voterToken))
    => polls[body[1].pollId].options[Lookup(polls[body[1].pollId].options,
                                            body[1].optionId).ix] = MaxReqs

\* ------------------------------------------------------------------ C4
\* C4: whenever no castVote is in flight, the sum of the stored option
\* counts of a poll equals the number of castVote requests on that poll that
\* returned success (stated for behaviours of well-formed votes in which no
\* store operation failed).
C4_TotalEqualsSuccesses ==
    (/\ Quiescent
     /\ \A r \in Reqs : pc[r] = "done" => body[r] \in WellFormedBodies /\ ~Failed(r))
    => \A p \in Stored :
          Total(p) = Cardinality({r \in Reqs : Succeeded(r) /\ body[r].pollId = p})

\* ------------------------------------------------------------------ C5
\* C5: no step of any request ever lowers a stored option count.
C5_CountsNeverDecrease ==
    [][\A p \in Stored : \A i \in 1..Len(polls[p].options) :
          polls'[p].options[i] >= polls[p].options[i]]_vars

\* ------------------------------------------------------------------ C6
\* C6: vote mutation is all-or-nothing: when no castVote is in flight, every
\* poll holds as many counted votes as ledger entries (no counted vote
\* without its ledger entry and no ledger entry without its counted vote),
\* also after a store failure at either write.
C6_AllOrNothing ==
    Quiescent => \A p \in Stored : Total(p) = Cardinality(Ledger(p))

\* ------------------------------------------------------------------ C7
\* C7: when the caller retries the same well-formed vote, each retry begun
\* after the previous attempt ended in a store failure, the poll's total
\* grows by at most 1 across the original attempt and all retries.
C7_RetryCountsOnce ==
    (/\ AllDone
     /\ \A r \in Reqs : body[r] = body[1] /\ body[r] \in WellFormedBodies
     /\ \A r \in Reqs : prior[r] = {q \in Reqs : q < r}
     /\ \A r \in Reqs : r < MaxReqs => Failed(r))
    => Total(body[1].pollId) <= 1

\* ------------------------------------------------------------------ C8
\* C8: a castVote that is rejected (InvalidRequest, NotFound, PollClosed,
\* InvalidOption or AlreadyVoted) has sent no write to either table, and the
\* step in which it returns leaves both tables as they were.
C8_RejectionWritesNothing ==
    [][\A r \in Reqs :
          (pc[r] # "done" /\ pc'[r] = "done" /\ resp'[r] \in Rejections)
          => /\ polls' = polls
             /\ voters' = voters
             /\ pollWrites'[r] = 0
             /\ voterWrites'[r] = 0]_vars

\* A second vote of a voter whose vote is counted and recorded was answered
\* AlreadyVoted, and a vote on a closed poll PollClosed.
C8_Witness ==
    \E q, r \in Reqs :
        /\ Succeeded(q)
        /\ AlreadyVoted(r)
        /\ SameVoter(q, r)
        /\ <<body[r].pollId, body[r].voterToken>> \in voters
        /\ Total(body[r].pollId) = 1

\* ------------------------------------------------------------------ C9
\* C9: once a poll's status is closed, no option count of that poll ever
\* changes again, also not by a request that loaded the poll while it was
\* still active.
C9_ClosedPollFrozen ==
    [][\A p \in Stored :
          polls[p].status = "closed" => polls'[p].options = polls[p].options]_vars

\* ----------------------------------------------------------------- C10
\* C10: a castVote whose optionId does not reference an existing option of
\* the poll, and that is not answered NotFound, PollClosed or with a store
\* failure, fails with InvalidOption.
C10_InvalidOptionRejected ==
    \A r \in Reqs :
        (/\ pc[r] = "done"
         /\ body[r] \in OddOptionBodies
         /\ resp[r].status \notin {403, 404, 500})
        => resp[r] = response(400, "Invalid option")

\* ----------------------------------------------------------------- C11
\* The invocation returned a poll view: the 200 response of GET /results or
\* of POST /vote.
ReturnedView(r) == pc[r] = "done" /\ resp[r].status = 200

\* The sum of the counts of the first n options of a list.
RECURSIVE CountUpTo(_, _)
CountUpTo(opts, n) == IF n = 0 THEN 0 ELSE CountUpTo(opts, n - 1) + opts[n]

\* C11: in every response that carries a poll view, totalVotes equals the
\* sum of the vote counts of the options returned in that same response.
C11_TotalIsSumOfReturnedOptions ==
    \A r \in Reqs :
        ReturnedView(r) =>
            resp[r].totalVotes = CountUpTo(resp[r].options, Len(resp[r].options))

\* A vote and a read of the results have both returned a view with a vote
\* in it.
C11_Witness ==
    \E q, g \in Reqs :
        /\ method[q] = "POST" /\ ReturnedView(q) /\ resp[q].totalVotes >= 1
        /\ method[g] = "GET" /\ ReturnedView(g) /\ resp[g].totalVotes >= 1

\* ----------------------------------------------------------------- C12
\* g is a getResults(P, V) that began after the castVote q of V on P had
\* returned success.
ReadsOwnVote(q, g) ==
    /\ method[q] = "POST" /\ Succeeded(q)
    /\ method[g] = "GET" /\ q \in prior[g]
    /\ query[g].pollId = body[q].pollId
    /\ query[g].voterToken = body[q].voterToken

\* C12: once castVote(P, o, V) has returned success, every getResults(P, V)
\* that starts afterwards and returns a poll view returns hasVoted = true.
C12_ReadYourVote ==
    \A q, g \in Reqs :
        (ReadsOwnVote(q, g) /\ ReturnedView(g)) => view[g].hasVoted

\* A voter has read the results after the vote succeeded.
C12_Witness ==
    \E q, g \in Reqs : ReadsOwnVote(q, g) /\ ReturnedView(g) /\ view[g].hasVoted

\* ----------------------------------------------------------------- C13
\* C13: no step of a getResults changes the polls table or the voters
\* table, whatever it returns.
C13_GetResultsReadsOnly ==
    [][\A r \in Reqs :
          (method'[r] = "GET" /\ pc'[r] # pc[r])
          => polls' = polls /\ voters' = voters]_vars

\* Results were read for a voter without a ledger entry while the ledger
\* held entries, and the ledger still has no entry for that voter.
C13_Witness ==
    \E g \in Reqs :
        /\ method[g] = "GET" /\ ReturnedView(g)
        /\ ~Falsy(query[g].voterToken)
        /\ ~view[g].hasVoted
        /\ voters # {}
        /\ <<query[g].pollId, query[g].voterToken>> \notin voters

\* ----------------------------------------------------------------- C14
\* C14: a getResults that returns a poll view returns hasVoted = true
\* exactly when a voterToken was supplied and the ledger holds an entry for
\* (pollId, voterToken) when it is looked up; a getResults with a pollId
\* whose read of the poll does not fail returns NotFound exactly when no
\* poll with that id is stored.
C14_HasVotedAndNotFound ==
    [][\A r \in Reqs :
          (method'[r] = "GET" /\ pc[r] # "done" /\ pc'[r] = "done")
          => /\ resp'[r].status = 200 =>
                 (view'[r].hasVoted <=>
                     /\ ~Falsy(query'[r].voterToken)
                     /\ <<query'[r].pollId, query'[r].voterToken>> \in voters)
             /\ resp'[r].status = 404 =>
                 (pc[r] = "idle" /\ polls[query'[r].pollId] = NoItem)
             /\ (pc[r] = "idle" /\ ~Falsy(query'[r].pollId)
                   /\ polls[query'[r].pollId] = NoItem)
                 => resp'[r].status \in {404, 500}]_vars

\* Results of the poll without a stored status were read with hasVoted =
\* true by a voter who has a ledger entry on that poll.
C14_Witness ==
    \E g \in Reqs :
        /\ method[g] = "GET" /\ ReturnedView(g)
        /\ view[g].hasVoted
        /\ query[g].pollId = "p2"
        /\ <<"p2", query[g].voterToken>> \in voters

\* ----------------------------------------------------------------- C15
\* The body fails the request-shape check of the handler.
Malformed(b) == Falsy(b.pollId) \/ b.optionId = Absent \/ Falsy(b.voterToken)

\* optionId names an element of the stored options of the poll.
ReferencesOption(b) ==
    /\ polls[b.pollId] # NoItem
    /\ \E i \in 1..Len(polls[b.pollId].options) :
          i <= Len(IndexKey) /\ IndexKey[i] = b.optionId

\* C15: castVote reports the first failing check in the order request
\* shape, poll existence, poll status, option validity, duplicate vote: a
\* response of a later check is given only to a request that passes the
\* earlier ones; in particular AlreadyVoted is answered only to a request
\* whose optionId references an existing option.
C15_ChecksInOrder ==
    \A r \in Reqs :
        (pc[r] = "done" /\ method[r] = "POST") =>
            /\ resp[r] = response(404, "Poll not found") =>
                  ~Malformed(body[r]) /\ polls[body[r].pollId] = NoItem
            /\ resp[r] = response(403, "Poll is closed") =>
                  ~Malformed(body[r]) /\ polls[body[r].pollId] # NoItem
            /\ resp[r] = response(400, "Invalid option") =>
                  ~Malformed(body[r]) /\ polls[body[r].pollId] # NoItem
                  /\ ~ReferencesOption(body[r])
            /\ resp[r] = response(400, "Already voted") =>
                  ~Malformed(body[r]) /\ ReferencesOption(body[r])

\* ----------------------------------------------------------------- C16
\* C16: a castVote in which pollId, optionId or voterToken is missing or
\* empty fails with InvalidRequest (400 Missing params, or 400 Missing body
\* when there is no body at all).
C16_MissingOrEmptyRejected ==
    \A r \in Reqs :
        (/\ pc[r] = "done"
         /\ method[r] = "POST"
         /\ resp[r] # response(500, "Internal server error")
         /\ Falsy(body[r].pollId) \/ Falsy(body[r].optionId) \/ Falsy(body[r].voterToken))
        => resp[r] \in {response(400, "Missing params"), response(400, "Missing body")}

\* ----------------------------------------------------------------- C17
\* The responses of POST /vote, each error with its status.
VoteErrors ==
    {response(400, "Missing body"), response(400, "Missing params"),
     response(400, "Invalid option"), response(400, "Already voted"),
     response(403, "Poll is closed"), response(404, "Poll not found"),
     response(500, "Internal server error")}

\* This step of invocation r is a ddb.send that rejects.
StoreFailure(r) ==
    \/ /\ pc[r] = "idle" /\ pc'[r] = "done"
       /\ body'[r] \in Bodies /\ ~Malformed(body'[r])
       /\ LoadPoll(r, body'[r], "error")
    \/ CheckVote(r, "error")
    \/ UpdatePoll(r, "error") \/ UpdatePoll(r, "timeout")
    \/ PutVoter(r, "error") \/ PutVoter(r, "timeout")

\* C17: every POST /vote ends with success 200 or with one of the errors
\* under its stated status (400 missing or invalid params, invalid option
\* and already voted, 403 poll closed, 404 poll not found, 500 otherwise),
\* and a step in which a store operation fails ends the request with 500.
C17_StatusMapping ==
    [][\A r \in Reqs :
          /\ (pc[r] # "done" /\ pc'[r] = "done" /\ method'[r] = "POST")
                => (resp'[r] \in VoteErrors
                    \/ (resp'[r].status = 200 /\ resp'[r].error = ""))
          /\ StoreFailure(r)
                => (pc'[r] = "done" /\ resp'[r] = response(500, "Internal server error"))]_vars

\* One vote ended with 500 after its tally write and another was refused
\* with 403 on the closed poll.
C17_Witness ==
    \E q, r \in Reqs :
        /\ Failed(q) /\ pollWrites[q] = 1
        /\ pc[r] = "done" /\ resp[r] = response(403, "Poll is closed")

\* ----------------------------------------------------------------- C18
\* C18: no step of a castVote or getResults for poll P changes the item of
\* a poll Q # P or the set of ledger entries of Q.
C18_PollsIndependent ==
    [][\A r \in Reqs :
          pc'[r] # pc[r] =>
             LET P == IF method'[r] = "GET" THEN query'[r].pollId
                      ELSE body'[r].pollId
             IN \A Q \in PollIds \ {P} :
                   /\ polls'[Q] = polls[Q]
                   /\ {v \in Tokens : <<Q, v>> \in voters'}
                         = {v \in Tokens : <<Q, v>> \in voters}]_vars

\* Both stored polls hold a counted vote and a ledger entry.
C18_Witness ==
    /\ Total("p1") >= 1 /\ Ledger("p1") # {}
    /\ Total("p2") >= 1 /\ Ledger("p2") # {}

\* ----------------------------------------------------------------- C19
\* C19 as stated: every ledger entry was created by a castVote that went on
\* to return success.
C19_EntryOnlyBySuccess ==
    \A e \in voters :
        \E r \in Reqs :
            /\ method[r] = "POST" /\ Succeeded(r)
            /\ e = <<body[r].pollId, body[r].voterToken>>

\* C19 (amended): the ledger only grows; an entry is created only by the
\* PutCommand of a castVote whose tally write has completed, and that
\* castVote then returns success, or 500 when the store reports the put as
\* failed although it was applied; no step removes an entry.
C19_LedgerOnlyGrows ==
    [][/\ voters \subseteq voters'
       /\ \A e \in voters' \ voters :
             \E r \in Reqs :
                /\ pc[r] = "putVoter" /\ pc'[r] = "done"
                /\ pollWrites[r] = 1
                /\ e = <<body[r].pollId, body[r].voterToken>>
                /\ resp'[r].status \in {200, 500}]_vars

\* A vote whose put was applied but reported as failed: the entry exists,
\* the request was answered 500, and a second voter's entry is there too.
C19_Witness ==
    \E r \in Reqs :
        /\ Failed(r) /\ voterWrites[r] = 1
        /\ <<body[r].pollId, body[r].voterToken>> \in voters
        /\ Cardinality(Ledger(body[r].pollId)) = 2

\* ----------------------------------------------------------------- C20
\* C20: a successful castVote with no other request interleaved (the first
\* invocation, nothing else begun) has raised the stored count of the
\* option it names by exactly 1 from the initial counts, left the other
\* counts as they were, and returned the stored options and their total.
C20_IsolatedVote ==
    (/\ method[1] = "POST" /\ Succeeded(1)
     /\ \A q \in Reqs \ {1} : pc[q] = "idle")
    => /\ \E i \in 1..Len(InitialOptions) :
             /\ IndexKey[i] = body[1].optionId
             /\ polls[body[1].pollId].options = Increment(InitialOptions, i)
       /\ resp[1].options = polls[body[1].pollId].options
       /\ resp[1].totalVotes = Total(body[1].pollId)

\* ----------------------------------------------------------------- C21
\* C21: within every castVote the tally write comes before the ledger
\* insert: an invocation reaches the ledger insert only by the step in which
\* its one UpdateCommand was applied and acknowledged, and only an
\* invocation waiting at the ledger insert sends a PutCommand or changes the
\* ledger.
C21_TallyBeforeLedger ==
    [][/\ \A r \in Reqs :
             /\ (pc[r] # "putVoter" /\ pc'[r] = "putVoter")
                   => /\ pc[r] = "updatePoll"
                      /\ pollWrites'[r] = 1 /\ voterWrites'[r] = 0
                      /\ polls' = SetOptions(body[r].pollId, options[r])
             /\ voterWrites'[r] # voterWrites[r] => pc[r] = "putVoter"
       /\ voters' # voters
             => \E r \in Reqs : pc[r] = "putVoter" /\ voterWrites'[r] = 1]_vars

\* The ledger insert of a vote failed: the vote is counted in the stored
\* tally, its invocation has ended with 500, and no ledger entry for its
\* (pollId, voterToken) exists.
C21_Witness ==
    \E r \in Reqs :
        /\ Failed(r) /\ pollWrites[r] = 1 /\ voterWrites[r] = 1
        /\ Total(body[r].pollId) >= 1
        /\ <<body[r].pollId, body[r].voterToken>> \notin voters

\* ----------------------------------------------------------------- C22
\* C22: one castVote sends at most one UpdateCommand and at most one
\* PutCommand; the step in which a store operation fails ends the
\* invocation, and an invocation that has ended sends nothing more.
C22_NoRetry ==
    [][\A r \in Reqs :
          /\ pollWrites'[r] <= 1 /\ voterWrites'[r] <= 1
          /\ StoreFailure(r)
                => /\ pc'[r] = "done" /\ resp'[r].status = 500
                   /\ pollWrites'[r] + voterWrites'[r]
                         <= pollWrites[r] + voterWrites[r] + 1
          /\ pc[r] = "done"
                => /\ pc'[r] = "done" /\ resp'[r] = resp[r]
                   /\ pollWrites'[r] = pollWrites[r]
                   /\ voterWrites'[r] = voterWrites[r]]_vars

\* One vote ended with 500 at its tally write, which was its only write,
\* and another at its ledger insert, after one write to each table.
C22_Witness ==
    \E q, r \in Reqs :
        /\ Failed(q) /\ pollWrites[q] = 1 /\ voterWrites[q] = 0
        /\ Failed(r) /\ pollWrites[r] = 1 /\ voterWrites[r] = 1

\* ----------------------------------------------------------------- C23
\* C23: no step of a castVote or getResults changes the status, question or
\* showVoteCount of a stored poll, nor removes a poll.
C23_OnlyOptionsWritten ==
    [][(\E r \in Reqs : pc'[r] # pc[r])
          => \A p \in PollIds :
                polls[p] # NoItem
                   => /\ polls'[p] # NoItem
                      /\ polls'[p].status = polls[p].status
                      /\ polls'[p].question = polls[p].question
                      /\ polls'[p].showVoteCount = polls[p].showVoteCount]_vars

\* A vote was written to poll p1 after the poll was closed, p1 is still
\* closed, and a getResults has reported it closed.
C23_Witness ==
    /\ polls["p1"].status = "closed" /\ Total("p1") >= 1
    /\ \E q \in Reqs : method[q] = "POST" /\ pollWrites[q] = 1
                         /\ body[q].pollId = "p1"
    /\ \E r \in Reqs : method[r] = "GET" /\ Succeeded(r) /\ view[r].isClosed

\* ----------------------------------------------------------------- C24
\* C24: in the view a getResults returns, isClosed is true exactly when the
\* status of the poll item it read is closed, status is active when the
\* item has no status and the stored status otherwise, and showVoteCount is
\* false exactly when the stored flag is false.
C24_ViewFlags ==
    [][\A r \in Reqs :
          (pc[r] # "done" /\ pc'[r] = "done" /\ method'[r] = "GET"
              /\ resp'[r].status = 200)
          => LET item == IF pc[r] = "idle" THEN polls[query'[r].pollId]
                         ELSE pollItem[r]
             IN /\ view'[r].isClosed <=> item.status = "closed"
                /\ item.status = "none" => view'[r].status = "active"
                /\ item.status # "none" => view'[r].status = item.status
                /\ view'[r].showVoteCount <=> item.showVoteCount # "false"]_vars

\* One getResults returned the poll without status and flag as active with
\* the count shown, another the closed poll with the count hidden.
C24_Witness ==
    \E q, r \in Reqs :
        /\ method[q] = "GET" /\ Succeeded(q) /\ query[q].pollId = "p2"
        /\ view[q].status = "active" /\ ~view[q].isClosed /\ view[q].showVoteCount
        /\ method[r] = "GET" /\ Succeeded(r) /\ query[r].pollId = "p1"
        /\ view[r].status = "closed" /\ view[r].isClosed /\ ~view[r].showVoteCount

\* ----------------------------------------------------------------- C25
\* The UpdateCommands the invocations 1..n have sent for poll p.
RECURSIVE TallyWritesUpTo(_, _)
TallyWritesUpTo(p, n) ==
    IF n = 0 THEN 0
    ELSE TallyWritesUpTo(p, n - 1)
            + (IF body[n].pollId = p THEN pollWrites[n] ELSE 0)

TallyWrites(p) == TallyWritesUpTo(p, MaxReqs)

\* C25: the stored total of a poll never exceeds the number of tally writes
\* the castVote invocations have sent for it.
C25_TotalAtMostWrites ==
    \A p \in Stored : Total(p) <= TallyWrites(p)

\* Two voters' votes on poll p1 both succeeded with one tally write each,
\* and the stored total is 1: a vote was lost, none invented.
C25_Witness ==
    \E q, r \in Reqs :
        /\ q # r /\ Succeeded(q) /\ Succeeded(r)
        /\ body[q].pollId = "p1" /\ body[r].pollId = "p1"
        /\ body[q].voterToken # body[r].voterToken
        /\ TallyWrites("p1") = 2 /\ Total("p1") = 1

\* ----------------------------------------------------------------- C26
\* The event of invocation r is answered before the routing: it is a
\* preflight, or it carries no x-api-key header.
Preflighted(r) == event[r].method = "OPTIONS"
Keyless(r) == event[r].method # "OPTIONS" /\ event[r].apiKey = Absent

\* C26: the step in which a request without x-api-key header that is not a
\* preflight begins ends it with 401, and the step in which a preflight
\* begins ends it with 200; in both the invocation has sent no command to
\* either table and the tables are as they were.
C26_KeyCheckBeforeStores ==
    [][\A r \in Reqs :
          (pc[r] = "idle" /\ pc'[r] # "idle" /\ (Preflighted(r) \/ Keyless(r)))
          => /\ pc'[r] = "done"
             /\ Keyless(r) => resp'[r] = response(401, "Missing API key")
             /\ Preflighted(r) => resp'[r].status = 200
             /\ ~accessed'[r]
             /\ pollWrites'[r] = 0 /\ voterWrites'[r] = 0
             /\ polls' = polls /\ voters' = voters]_vars

\* A POST /vote without key was answered 401 and a preflight 200, neither
\* having sent a command to a table.
C26_Witness ==
    \E q, r \in Reqs :
        /\ Keyless(q) /\ event[q].method = "POST" /\ event[q].path = "/vote"
        /\ pc[q] = "done" /\ resp[q].status = 401 /\ ~accessed[q]
        /\ Preflighted(r) /\ pc[r] = "done" /\ resp[r].status = 200 /\ ~accessed[r]

\* ----------------------------------------------------------------- C27
\* C27: an invocation of the proxy sends at most one request to the target
\* API; a preflight is answered 200 and a request under a missing
\* TARGET_API_BASE or PUBLIC_API_KEY 500, both without a request to the
\* target; the target's status and body are returned as received; a fetch
\* or body read that fails ends the invocation with 502 and sends nothing
\* more.
C27_ProxyForwardsOnce ==
    [][/\ proxy'.forwards <= 1
       /\ \A e \in ProxyEvents :
             (ProxyInvoke(e) /\ ~e.warmup)
             => /\ e.method = "OPTIONS"
                     => (proxy'.pc = "done" /\ proxy'.resp.status = 200
                         /\ proxy'.forwards = 0)
                /\ (e.method # "OPTIONS" /\ (~proxy.env.target \/ ~proxy.env.key))
                     => (proxy'.pc = "done" /\ proxy'.resp.status = 500
                         /\ proxy'.forwards = 0)
       /\ ProxyTextReturns("ok")
             => (proxy'.pc = "done" /\ proxy'.resp = proxy.target
                 /\ proxy'.forwards = proxy.forwards)
       /\ (ProxyFetchReturns(FetchRejected) \/ ProxyTextReturns("reject"))
             => (proxy'.pc = "done" /\ proxy'.resp.status = 502
                 /\ proxy'.forwards = proxy.forwards)]_vars

\* The proxy has returned a 404 of the target with the target's body after
\* one forwarded request.
C27_Witness ==
    /\ proxy.pc = "done" /\ proxy.forwards = 1
    /\ proxy.target = [status |-> 404, body |-> "{error}"]
    /\ proxy.resp = proxy.target

====
